---- MODULE Spec2Model ----
(***************************************************************************)
(* Run-history metadata reconciliation of lighteval's EvaluationTracker:   *)
(* EvaluationTracker.recreate_metadata_card                                *)
(* (src/src/lighteval/logging/evaluation_tracker.py, lines 294-445).       *)
(*                                                                         *)
(* File paths are TLA+ strings and every str / os.path / re / datetime     *)
(* call of the method is an operator that works on the characters of its   *)
(* argument, so parsing, sanitizing and formatting are computed and not    *)
(* assumed.  The method is a state machine: one action per loop iteration  *)
(* of the two passes over the parquet files, one for the computation of    *)
(* the maxima between them and one for the final lookup of the most recent *)
(* results file.  An uncaught Python exception ends the run in             *)
(* pc = "raised" with its class name in error.                             *)
(*                                                                         *)
(* Spec runs the method on every short listing of a fixed set of files;    *)
(* SaveSpec runs it on the listings that EvaluationTracker.save and        *)
(* details_to_hub (lines 146-292) leave after a few runs at chosen         *)
(* readings of the clock.                                                  *)
(***************************************************************************)
EXTENDS Integers, Sequences, FiniteSets, TLC

VARIABLES
    files_in_repo,                \* the listing returned by list_repo_files
    pc,                           \* "pass1", "pass2", "done", "raised"
    idx,                          \* position of the running loop in parquet_files
    last_eval_date_results,       \* task_name -> datetime (pass 1), iso string (after)
    max_last_eval_date_results,   \* iso string of the global maximum, "" before
    card_metadata,                \* config name -> data_files list
    former_entry_bound,           \* is the local variable former_entry assigned
    error,                        \* class of the propagated exception, "none"
    pushed                        \* has the card been pushed to the hub

vars == <<files_in_repo, pc, idx, last_eval_date_results,
          max_last_eval_date_results, card_metadata, former_entry_bound, error,
          pushed>>

-----------------------------------------------------------------------------
(* Python str operations, on the characters of TLA+ strings.               *)

Digits == "0123456789"

WordAlphabet == "abcdefghijklmnopqrstuvwxyzABCDEFGHIJKLMNOPQRSTUVWXYZ0123456789_"

CharsOf(s) == { SubSeq(s, i, i) : i \in 1..Len(s) }

\* the characters the regular expression class \w matches
WordChars == CharsOf(WordAlphabet)

\* str.find, 1-based; 0 when sub does not occur
Find(s, sub) ==
    LET hits == { i \in 1..(Len(s) - Len(sub) + 1) : SubSeq(s, i, i + Len(sub) - 1) = sub }
    IN  IF hits = {} THEN 0 ELSE CHOOSE i \in hits : \A j \in hits : i <= j

\* str.rfind, 1-based; 0 when sub does not occur
RFind(s, sub) ==
    LET hits == { i \in 1..(Len(s) - Len(sub) + 1) : SubSeq(s, i, i + Len(sub) - 1) = sub }
    IN  IF hits = {} THEN 0 ELSE CHOOSE i \in hits : \A j \in hits : i >= j

\* sub in s
Contains(s, sub) == Find(s, sub) # 0

\* s.replace(old, new): every occurrence, left to right
RECURSIVE Replace(_, _, _)
Replace(s, old, new) ==
    LET i == Find(s, old)
    IN  IF i = 0 THEN s
        ELSE SubSeq(s, 1, i - 1) \o new \o Replace(SubSeq(s, i + Len(old), Len(s)), old, new)

\* s.split(sep)[0]
SplitFirst(s, sep) ==
    LET i == Find(s, sep) IN IF i = 0 THEN s ELSE SubSeq(s, 1, i - 1)

\* s.split(sep), as a sequence of strings
RECURSIVE Split(_, _)
Split(s, sep) ==
    LET i == Find(s, sep)
    IN  IF i = 0 THEN <<s>>
        ELSE <<SubSeq(s, 1, i - 1)>> \o Split(SubSeq(s, i + Len(sep), Len(s)), sep)

\* sep.join(s.rsplit(old, maxsplit)): the last maxsplit occurrences are replaced
RECURSIVE RSplitJoin(_, _, _, _)
RSplitJoin(s, old, sep, maxsplit) ==
    LET i == RFind(s, old)
    IN  IF maxsplit = 0 \/ i = 0 THEN s
        ELSE RSplitJoin(SubSeq(s, 1, i - 1), old, sep, maxsplit - 1)
             \o sep \o SubSeq(s, i + Len(old), Len(s))

\* re.sub of a one-character class: every character outside keep becomes "_"
RECURSIVE ReSubOutside(_, _)
ReSubOutside(s, keep) ==
    IF Len(s) = 0 THEN s
    ELSE (IF SubSeq(s, 1, 1) \in keep THEN SubSeq(s, 1, 1) ELSE "_")
         \o ReSubOutside(SubSeq(s, 2, Len(s)), keep)

\* re.sub(r"\W", "_", s)                                  (lines 351, 394)
SanitizeTask(s) == ReSubOutside(s, WordChars)

\* re.sub(r"[^\w\.]", "_", s)                             (lines 347, 353, 356)
SanitizeDate(s) == ReSubOutside(s, WordChars \cup {"."})

\* os.path.basename
Basename(p) == SubSeq(p, RFind(p, "/") + 1, Len(p))

RECURSIVE RStripSlash(_)
RStripSlash(s) ==
    IF Len(s) > 0 /\ SubSeq(s, Len(s), Len(s)) = "/"
    THEN RStripSlash(SubSeq(s, 1, Len(s) - 1)) ELSE s

\* os.path.dirname (posixpath): the head up to the last "/", trailing
\* slashes stripped unless the head is slashes only
Dirname(p) ==
    LET head == SubSeq(p, 1, RFind(p, "/"))
    IN  IF RStripSlash(head) = "" THEN head ELSE RStripSlash(head)

\* os.path.join("**", name)
JoinGlob(name) ==
    IF Len(name) > 0 /\ SubSeq(name, 1, 1) = "/" THEN name ELSE "**/" \o name

-----------------------------------------------------------------------------
(* datetime.fromisoformat and datetime.isoformat.  A datetime is the tuple *)
(* <<year, month, day, hour, minute, second, microsecond>>.                *)

IsDigits(s) == Len(s) > 0 /\ \A i \in 1..Len(s) : SubSeq(s, i, i) \in CharsOf(Digits)

DigitVal(c) == CHOOSE d \in 0..9 : SubSeq(Digits, d + 1, d + 1) = c

RECURSIVE ToNat(_)
ToNat(s) ==
    IF Len(s) = 0 THEN 0
    ELSE 10 * ToNat(SubSeq(s, 1, Len(s) - 1)) + DigitVal(SubSeq(s, Len(s), Len(s)))

IsLeap(y) == (y % 4 = 0 /\ y % 100 # 0) \/ y % 400 = 0

DaysInMonth(y, m) ==
    IF m = 2 THEN (IF IsLeap(y) THEN 29 ELSE 28)
    ELSE IF m \in {4, 6, 9, 11} THEN 30 ELSE 31

\* the date part YYYY-MM-DD
DateOk(s) ==
    /\ Len(s) >= 10
    /\ IsDigits(SubSeq(s, 1, 4)) /\ SubSeq(s, 5, 5) = "-"
    /\ IsDigits(SubSeq(s, 6, 7)) /\ SubSeq(s, 8, 8) = "-"
    /\ IsDigits(SubSeq(s, 9, 10))
    /\ ToNat(SubSeq(s, 1, 4)) >= 1
    /\ ToNat(SubSeq(s, 6, 7)) \in 1..12
    /\ ToNat(SubSeq(s, 9, 10)) \in 1..DaysInMonth(ToNat(SubSeq(s, 1, 4)), ToNat(SubSeq(s, 6, 7)))

\* the time part HH[:MM[:SS[.fff[fff]]]] of a naive date-time
TimeOk(t) ==
    /\ Len(t) \in {2, 5, 8, 12, 15}
    /\ IsDigits(SubSeq(t, 1, 2)) /\ ToNat(SubSeq(t, 1, 2)) < 24
    /\ Len(t) >= 5 =>
          SubSeq(t, 3, 3) = ":" /\ IsDigits(SubSeq(t, 4, 5)) /\ ToNat(SubSeq(t, 4, 5)) < 60
    /\ Len(t) >= 8 =>
          SubSeq(t, 6, 6) = ":" /\ IsDigits(SubSeq(t, 7, 8)) /\ ToNat(SubSeq(t, 7, 8)) < 60
    /\ Len(t) >= 12 => SubSeq(t, 9, 9) = "." /\ IsDigits(SubSeq(t, 10, Len(t)))

\* does datetime.fromisoformat(s) return (TRUE) or raise ValueError (FALSE)
IsoFormatOk(s) ==
    /\ DateOk(s)
    /\ Len(s) > 10 => TimeOk(SubSeq(s, 12, Len(s)))

\* FromIsoFormat dropping the fraction of the second
FromIsoFormatNoFraction(s) ==
    << ToNat(SubSeq(s, 1, 4)), ToNat(SubSeq(s, 6, 7)), ToNat(SubSeq(s, 9, 10)),
       ToNat(SubSeq(s, 12, 13)), ToNat(SubSeq(s, 15, 16)), ToNat(SubSeq(s, 18, 19)), 0 >>

\* datetime.fromisoformat(s), for a string it accepts
FromIsoFormat(s) ==
    LET t  == SubSeq(s, 12, Len(s))
        fr == SubSeq(t, 10, Len(t))
    IN  << ToNat(SubSeq(s, 1, 4)), ToNat(SubSeq(s, 6, 7)), ToNat(SubSeq(s, 9, 10)),
           IF Len(t) >= 2 THEN ToNat(SubSeq(t, 1, 2)) ELSE 0,
           IF Len(t) >= 5 THEN ToNat(SubSeq(t, 4, 5)) ELSE 0,
           IF Len(t) >= 8 THEN ToNat(SubSeq(t, 7, 8)) ELSE 0,
           IF Len(t) = 15 THEN ToNat(fr)
           ELSE IF Len(t) = 12 THEN 1000 * ToNat(fr) ELSE 0 >>

RECURSIVE Pad(_, _)
\* "%0<width>d" % n
Pad(n, width) ==
    IF width = 0 THEN ""
    ELSE Pad(n \div 10, width - 1) \o SubSeq(Digits, (n % 10) + 1, (n % 10) + 1)

\* datetime.isoformat(): the fraction is written only when it is not zero
IsoFormat(d) ==
    Pad(d[1], 4) \o "-" \o Pad(d[2], 2) \o "-" \o Pad(d[3], 2) \o "T"
    \o Pad(d[4], 2) \o ":" \o Pad(d[5], 2) \o ":" \o Pad(d[6], 2)
    \o (IF d[7] = 0 THEN "" ELSE "." \o Pad(d[7], 6))

\* d1 < d2 on datetimes
RECURSIVE TupleLess(_, _)
TupleLess(a, b) ==
    IF Len(a) = 0 THEN FALSE
    ELSE IF Head(a) # Head(b) THEN Head(a) < Head(b)
    ELSE TupleLess(Tail(a), Tail(b))

DateLess(d1, d2) == TupleLess(d1, d2)

\* max(d1, d2)
DateMax(d1, d2) == IF DateLess(d1, d2) THEN d2 ELSE d1

-----------------------------------------------------------------------------
(* The files of a details repository.  EvaluationTracker.save names them;  *)
(* details_to_hub uploads them: results_<date_id>.json and its parquet     *)
(* copy at the root, the details of each task under the folder <date_id>.  *)

\* date_id of two runs: datetime.now().isoformat().replace(":", "-")
TS1 == "2023-09-03T10-57-04.203304"
TS2 == "2024-01-15T08-30-00.123456"

ResultsJson(date_id) == "results_" \o date_id \o ".json"

ResultsParquet(date_id) == Replace(ResultsJson(date_id), ".json", ".parquet")

DetailsFile(task_name, date_id) ==
    date_id \o "/" \o "details_" \o task_name \o "_" \o date_id \o ".parquet"

J1 == ResultsJson(TS1)
J2 == ResultsJson(TS2)
R1 == ResultsParquet(TS1)
R2 == ResultsParquet(TS2)
A1 == DetailsFile("lighteval|mmlu:us_history|5", TS1)
A2 == DetailsFile("lighteval|mmlu:us_history|5", TS2)
B1 == DetailsFile("lighteval|mmlu:world_religions|5", TS1)
M2 == DetailsFile("lighteval|mmlu|5", TS2)
P1 == DetailsFile("harness|arc:challenge|25", TS1)
\* a parquet file that is neither a results file nor under a dated folder
X0 == "notes.parquet"

\* the files a listing is drawn from, in a fixed reference order
UniverseSeq == <<J1, J2, R1, R2, A1, A2, B1, M2, P1, X0>>

Universe == { UniverseSeq[i] : i \in 1..Len(UniverseSeq) }

\* the longest listing
MaxFiles == 4

\* list_repo_files returns each path once, in no order the method relies on
Listings ==
    { l \in UNION { [1..n -> Universe] : n \in 0..MaxFiles } :
        \A i, j \in DOMAIN l : i # j => l[i] # l[j] }

-----------------------------------------------------------------------------
(* EvaluationTracker.save at a reading of the clock: the files it writes   *)
(* and details_to_hub uploads, and the listings of a details repository    *)
(* after a few runs.                                                       *)

\* readings of datetime.now(), line 149: whole seconds and fractions, two
\* readings one microsecond apart, the last second of a year, a leap day
Clock ==
    { <<2023, 9, 3, 10, 57, 4, 0>>,
      <<2023, 9, 3, 10, 57, 4, 1>>,
      <<2023, 12, 31, 23, 59, 59, 999999>>,
      <<2024, 2, 29, 0, 0, 0, 0>>,
      <<2024, 1, 15, 8, 30, 0, 123456>>,
      <<2025, 3, 7, 9, 5, 0, 500000>> }

\* line 149: datetime.now().isoformat().replace(":", "-")
DateId(now) == Replace(IsoFormat(now), ":", "-")

\* the keys of details_logger.details in a run, line 181
TaskLists ==
    { <<"lighteval|mmlu:us_history|5">>,
      <<"harness|arc:challenge|25">>,
      <<"lighteval|mmlu:us_history|5", "custom|my_task|0">> }

\* lines 157-182 and 274-290: what one run adds to the repository
SaveFiles(now, tasks) ==
    <<ResultsJson(DateId(now)), ResultsParquet(DateId(now))>>
    \o [ i \in 1..Len(tasks) |-> DetailsFile(tasks[i], DateId(now)) ]

\* the most runs a listing holds
MaxRuns == 2

\* the listings after n runs at n readings of the clock
RECURSIVE ListingsAfter(_)
ListingsAfter(n) ==
    IF n = 0 THEN { <<>> }
    ELSE { l \o SaveFiles(now, tasks) :
             l \in ListingsAfter(n - 1), now \in Clock, tasks \in TaskLists }

\* a repository is listed after a run: runs at one reading of the clock
\* would write the same results file
SavedListings ==
    { l \in UNION { ListingsAfter(n) : n \in 1..MaxRuns } :
        \A i, j \in DOMAIN l : i # j => l[i] # l[j] }

SavedFiles ==
    UNION { { SaveFiles(now, tasks)[i] : i \in 1..Len(SaveFiles(now, tasks)) } :
              now \in Clock, tasks \in TaskLists }

-----------------------------------------------------------------------------
(* What recreate_metadata_card derives from one path, named as in the      *)
(* source.                                                                 *)

IsResultsFile(f) == Contains(f, ".json")                         \* line 302
IsParquetFile(f) == Contains(f, ".parquet")                      \* line 303
IsResultsParquet(sub_file) == Contains(sub_file, "results_")     \* lines 310, 344, 384

\* pass 1, lines 316-318
Pass1TaskName(sub_file) ==
    SplitFirst(Replace(Basename(sub_file), "details_", ""), "_202")

\* pass 1, lines 323-324
IsoDate(sub_file) == RSplitJoin(Dirname(sub_file), "-", ":", 2)

\* pass 2, line 350
Pass2TaskName(sub_file) ==
    SplitFirst(SplitFirst(Replace(Basename(sub_file), "details_", ""), "_2023"), "_2024")

\* pass 2, lines 346 and 351
SanitizedTask(sub_file) ==
    IF IsResultsParquet(sub_file) THEN "results"
    ELSE SanitizeTask(Pass2TaskName(sub_file))

\* pass 2, lines 345 and 352
EvalDate(sub_file) ==
    IF IsResultsParquet(sub_file)
    THEN Replace(Replace(Basename(sub_file), "results_", ""), ".parquet", "")
    ELSE Dirname(sub_file)

\* pass 2, line 356
SanitizedEvalDate(sub_file) == SanitizeDate(EvalDate(sub_file))

\* pass 2, lines 348 and 354
RepoFileName(sub_file) ==
    IF IsResultsParquet(sub_file) THEN Basename(sub_file)
    ELSE JoinGlob(Basename(sub_file))

\* lines 389-392
SPECIAL_TASKS == <<"lighteval|mmlu", "original|mmlu">>

\* lines 394-401: the name of the group config of special_task for a task
SanitizedSpecialTask(special_task, task_name) ==
    LET task_info == Split(task_name, "|")
        n == Len(task_info)
    IN  SanitizeTask(special_task)
        \o (IF n = 3 THEN "_" \o task_info[n]
            ELSE IF n = 4 THEN "_" \o task_info[n - 1] \o "_" \o task_info[n]
            ELSE "")

\* lines 393-395: the group configs a detail file is merged into, in loop order
SpecialGroups(sub_file) ==
    LET hit(k) == Contains(SanitizedTask(sub_file), SanitizeTask(SPECIAL_TASKS[k]))
        name(k) == SanitizedSpecialTask(SPECIAL_TASKS[k], Pass2TaskName(sub_file))
    IN  (IF hit(1) THEN <<name(1)>> ELSE <<>>) \o (IF hit(2) THEN <<name(2)>> ELSE <<>>)

\* everything above for one path, computed once per file of the universe
Derive(f) ==
    [ is_json      |-> IsResultsFile(f),
      is_parquet   |-> IsParquetFile(f),
      is_result    |-> IsResultsParquet(f),
      task1        |-> Pass1TaskName(f),
      iso_ok       |-> IsoFormatOk(IsoDate(f)),
      eval_dt      |-> IF IsoFormatOk(IsoDate(f)) THEN FromIsoFormat(IsoDate(f)) ELSE <<>>,
      task2        |-> Pass2TaskName(f),
      sanitized_task      |-> SanitizedTask(f),
      sanitized_eval_date |-> SanitizedEvalDate(f),
      repo_file_name      |-> RepoFileName(f),
      groups       |-> SpecialGroups(f) ]

Derived == [ f \in Universe \cup SavedFiles |-> Derive(f) ]

results_files(listing) == SelectSeq(listing, LAMBDA f : Derived[f].is_json)     \* line 302
parquet_files(listing) == SelectSeq(listing, LAMBDA f : Derived[f].is_parquet)  \* line 303
multiple_results(listing) == Len(results_files(listing)) > 1                    \* line 304

-----------------------------------------------------------------------------
(* The steps of recreate_metadata_card as functions of the local state, so *)
(* that the actions below and a complete run over a listing share them.    *)

EmptyMap == <<>>

Put(map, key, value) == [ k \in DOMAIN map \cup {key} |-> IF k = key THEN value ELSE map[k] ]

\* one entry of a data_files list
Entry(split, repo_file_name) == [split |-> split, path |-> <<repo_file_name>>]

\* Pass1Update keeping the date seen last instead of the maximum
Pass1UpdateLastSeen(last, d) == Put(last, d.task1, d.eval_dt)

\* lines 327-329: the running maximum of one task; d is Derived[sub_file]
Pass1Update(last, d) ==
    Put(last, d.task1,
        IF d.task1 \in DOMAIN last THEN DateMax(last[d.task1], d.eval_dt)
        ELSE d.eval_dt)

\* GlobalMax without the loop of lines 333-335: the first value of the dict
GlobalMaxOfFirst(last) == last[CHOOSE t \in DOMAIN last : TRUE]

\* lines 331-335: the maximum over the tasks' maxima (of a non-empty dict)
GlobalMax(last) ==
    CHOOSE m \in { last[t] : t \in DOMAIN last } :
        \A t \in DOMAIN last : ~DateLess(m, last[t])

\* line 336: the per-task maxima, converted to iso format
IsoOfAll(last) == [ t \in DOMAIN last |-> IsoFormat(last[t]) ]

\* lines 347 and 353: the sanitized date that makes a file the latest of its config
SanitizedLastEvalDate(d, last_iso, max_iso) ==
    IF d.is_result THEN SanitizeDate(max_iso)
    ELSE SanitizeDate(last_iso[d.task2])

\* line 353 raises KeyError when pass 1 stored the maximum under another name
LookupFails(d, last_iso) == ~d.is_result /\ d.task2 \notin DOMAIN last_iso

\* lines 370-373: the duplicate guard of the single-result mode
ConflictRaised(cm, d, multi) == ~multi /\ d.sanitized_task \in DOMAIN cm

\* lines 371-373: the message of the ValueError reads former_entry, which is
\* a local variable that may not have been assigned yet
ConflictError(bound) == IF bound THEN "ValueError" ELSE "UnboundLocalError"

\* AddDatedSplit replacing the entries of the config instead of appending
AddDatedSplitReplacing(cm, d, multi) ==
    Put(cm, d.sanitized_task, <<Entry(d.sanitized_eval_date, d.repo_file_name)>>)

\* lines 358-376: the split of the file's own date in the file's own config
AddDatedSplit(cm, d, multi) ==
    IF multi /\ d.sanitized_task \in DOMAIN cm
    THEN Put(cm, d.sanitized_task,
             Append(cm[d.sanitized_task], Entry(d.sanitized_eval_date, d.repo_file_name)))
    ELSE Put(cm, d.sanitized_task, <<Entry(d.sanitized_eval_date, d.repo_file_name)>>)

\* lines 378-382: the "latest" split of the file's own config
AddLatestSplit(cm, d, is_latest) ==
    IF is_latest
    THEN Put(cm, d.sanitized_task,
             Append(cm[d.sanitized_task], Entry("latest", d.repo_file_name)))
    ELSE cm

\* ExtendSplit without the search for an entry of that name
ExtendSplitNoSearch(data_files, split, repo_file_name) ==
    Append(data_files, Entry(split, repo_file_name))

\* lines 407-423 and 426-441: extend the first entry named split, or append one
ExtendSplit(data_files, split, repo_file_name) ==
    LET hits == { i \in 1..Len(data_files) : data_files[i].split = split }
    IN  IF hits = {} THEN Append(data_files, Entry(split, repo_file_name))
        ELSE LET split_index == CHOOSE i \in hits : \A j \in hits : i <= j
             IN  [data_files EXCEPT ![split_index].path = Append(@, repo_file_name)]

\* lines 402-423: the dated split of one group config
MergeDated(cm, group, d) ==
    IF group \notin DOMAIN cm
    THEN Put(cm, group, <<Entry(d.sanitized_eval_date, d.repo_file_name)>>)
    ELSE Put(cm, group, ExtendSplit(cm[group], d.sanitized_eval_date, d.repo_file_name))

\* lines 425-441: the "latest" split of one group config
MergeLatest(cm, group, d, is_latest) ==
    IF is_latest
    THEN Put(cm, group, ExtendSplit(cm[group], "latest", d.repo_file_name))
    ELSE cm

\* lines 402-441: merge one file into one group config
MergeIntoGroup(cm, group, d, is_latest) ==
    MergeLatest(MergeDated(cm, group, d), group, d, is_latest)

\* lines 393-441: the loop over SPECIAL_TASKS
RECURSIVE MergeIntoGroups(_, _, _, _)
MergeIntoGroups(cm, groups, d, is_latest) ==
    IF groups = <<>> THEN cm
    ELSE MergeIntoGroups(MergeIntoGroup(cm, Head(groups), d, is_latest),
                         Tail(groups), d, is_latest)

\* is former_entry assigned after the iteration (lines 364, 407 and 426);
\* own is the card metadata after line 382
FormerEntryBound(cm, own, bound, d, multi, is_latest) ==
    \/ bound
    \/ multi /\ d.sanitized_task \in DOMAIN cm
    \/ /\ ~d.is_result
       /\ d.groups # <<>>
       /\ \/ is_latest
          \/ \E k \in 1..Len(d.groups) :
                \/ d.groups[k] \in DOMAIN own
                \/ \E j \in 1..(k - 1) : d.groups[j] = d.groups[k]

\* lines 356-441 of an iteration that raises nothing
Pass2Update(st, d, multi, is_latest, own) ==
    [ card_metadata |->
          IF d.is_result THEN own ELSE MergeIntoGroups(own, d.groups, d, is_latest),
      former_entry_bound |->
          FormerEntryBound(st.card_metadata, own, st.former_entry_bound, d, multi, is_latest),
      error |-> "none" ]

\* lines 343-441: one iteration of pass 2 on the local state
\* st = [card_metadata, former_entry_bound, error]; d is Derived[sub_file]
Pass2Step(st, d, multi, last_iso, max_iso) ==
    IF LookupFails(d, last_iso)
    THEN [st EXCEPT !.error = "KeyError"]
    ELSE IF ConflictRaised(st.card_metadata, d, multi)
    THEN [st EXCEPT !.error = ConflictError(st.former_entry_bound)]
    ELSE Pass2Update(st, d, multi,
             d.sanitized_eval_date = SanitizedLastEvalDate(d, last_iso, max_iso),
             AddLatestSplit(AddDatedSplit(st.card_metadata, d, multi), d,
                 d.sanitized_eval_date = SanitizedLastEvalDate(d, last_iso, max_iso)))

\* line 445: the results files whose name holds the most recent date
LastResultsFiles(listing, max_iso) ==
    SelectSeq(results_files(listing),
              LAMBDA f : Contains(f, Replace(max_iso, ":", "-")))

-----------------------------------------------------------------------------
(* The state machine.                                                      *)

Init ==
    /\ files_in_repo \in Listings
    /\ pc = "pass1"
    /\ idx = 1
    /\ last_eval_date_results = EmptyMap
    /\ max_last_eval_date_results = ""
    /\ card_metadata = EmptyMap
    /\ former_entry_bound = FALSE
    /\ error = "none"
    /\ pushed = FALSE

\* the loop pc is in has a file left; sub_file is that file
InLoop(p) == pc = p /\ idx <= Len(parquet_files(files_in_repo))
sub_file == parquet_files(files_in_repo)[idx]

Raise(exception) ==
    /\ pc' = "raised"
    /\ error' = exception

\* lines 308-311: pass 1 skips the results files
Pass1Skip ==
    /\ InLoop("pass1")
    /\ Derived[sub_file].is_result
    /\ idx' = idx + 1
    /\ UNCHANGED <<files_in_repo, pc, last_eval_date_results, max_last_eval_date_results,
                   card_metadata, former_entry_bound, error, pushed>>

\* lines 316-329: pass 1 records the date of a details file
Pass1Record ==
    /\ InLoop("pass1")
    /\ ~Derived[sub_file].is_result
    /\ Derived[sub_file].iso_ok
    /\ last_eval_date_results' = Pass1Update(last_eval_date_results, Derived[sub_file])
    /\ idx' = idx + 1
    /\ UNCHANGED <<files_in_repo, pc, max_last_eval_date_results, card_metadata,
                   former_entry_bound, error, pushed>>

\* line 325: datetime.fromisoformat raises ValueError, which nothing catches
Pass1Raise ==
    /\ InLoop("pass1")
    /\ ~Derived[sub_file].is_result
    /\ ~Derived[sub_file].iso_ok
    /\ Raise("ValueError")
    /\ UNCHANGED <<files_in_repo, idx, last_eval_date_results, max_last_eval_date_results,
                   card_metadata, former_entry_bound, pushed>>

\* lines 331-340: the maxima, in iso format, and the empty card metadata
ComputeMax ==
    /\ pc = "pass1" /\ idx > Len(parquet_files(files_in_repo))
    /\ DOMAIN last_eval_date_results # {}
    /\ max_last_eval_date_results' = IsoFormat(GlobalMax(last_eval_date_results))
    /\ last_eval_date_results' = IsoOfAll(last_eval_date_results)
    /\ pc' = "pass2"
    /\ idx' = 1
    /\ UNCHANGED <<files_in_repo, card_metadata, former_entry_bound, error, pushed>>

\* line 331: list(...)[0] of an empty dict raises IndexError
ComputeMaxRaise ==
    /\ pc = "pass1" /\ idx > Len(parquet_files(files_in_repo))
    /\ DOMAIN last_eval_date_results = {}
    /\ Raise("IndexError")
    /\ UNCHANGED <<files_in_repo, idx, last_eval_date_results, max_last_eval_date_results,
                   card_metadata, former_entry_bound, pushed>>

\* the local state after the iteration of pass 2 on sub_file
AfterPass2 ==
    Pass2Step([card_metadata |-> card_metadata,
               former_entry_bound |-> former_entry_bound,
               error |-> "none"],
              Derived[sub_file], multiple_results(files_in_repo),
              last_eval_date_results, max_last_eval_date_results)

Pass2Commit ==
    /\ card_metadata' = AfterPass2.card_metadata
    /\ former_entry_bound' = AfterPass2.former_entry_bound
    /\ idx' = idx + 1
    /\ UNCHANGED <<files_in_repo, pc, last_eval_date_results, max_last_eval_date_results,
                   error, pushed>>

\* lines 343-385: pass 2 on a results file
Pass2Results ==
    /\ InLoop("pass2")
    /\ Derived[sub_file].is_result
    /\ AfterPass2.error = "none"
    /\ Pass2Commit

\* lines 343-441: pass 2 on a details file
Pass2Details ==
    /\ InLoop("pass2")
    /\ ~Derived[sub_file].is_result
    /\ AfterPass2.error = "none"
    /\ Pass2Commit

\* lines 353 and 371: pass 2 raises
Pass2Raise ==
    /\ InLoop("pass2")
    /\ AfterPass2.error # "none"
    /\ Raise(AfterPass2.error)
    /\ UNCHANGED <<files_in_repo, idx, last_eval_date_results, max_last_eval_date_results,
                   card_metadata, former_entry_bound, pushed>>

\* lines 445-493: the most recent results file is found, the card is pushed
PushCard ==
    /\ pc = "pass2" /\ idx > Len(parquet_files(files_in_repo))
    /\ LastResultsFiles(files_in_repo, max_last_eval_date_results) # <<>>
    /\ pc' = "done"
    /\ pushed' = TRUE
    /\ UNCHANGED <<files_in_repo, idx, last_eval_date_results, max_last_eval_date_results,
                   card_metadata, former_entry_bound, error>>

\* line 445: [...][0] of an empty list raises IndexError
PushCardRaise ==
    /\ pc = "pass2" /\ idx > Len(parquet_files(files_in_repo))
    /\ LastResultsFiles(files_in_repo, max_last_eval_date_results) = <<>>
    /\ Raise("IndexError")
    /\ UNCHANGED <<files_in_repo, idx, last_eval_date_results, max_last_eval_date_results,
                   card_metadata, former_entry_bound, pushed>>

Next ==
    \/ Pass1Skip
    \/ Pass1Record
    \/ Pass1Raise
    \/ ComputeMax
    \/ ComputeMaxRaise
    \/ Pass2Results
    \/ Pass2Details
    \/ Pass2Raise
    \/ PushCard
    \/ PushCardRaise

Spec == Init /\ [][Next]_vars

\* the call of line 292, at the end of a run, on a repository written by
\* save alone
InitSave ==
    /\ files_in_repo \in SavedListings
    /\ pc = "pass1"
    /\ idx = 1
    /\ last_eval_date_results = EmptyMap
    /\ max_last_eval_date_results = ""
    /\ card_metadata = EmptyMap
    /\ former_entry_bound = FALSE
    /\ error = "none"
    /\ pushed = FALSE

\* such a listing holds, per run, a details file under a folder that
\* fromisoformat accepts and the results file of the run, so that lines
\* 325, 331 and 445 raise nothing
NextSave ==
    \/ Pass1Skip
    \/ Pass1Record
    \/ ComputeMax
    \/ Pass2Results
    \/ Pass2Details
    \/ Pass2Raise
    \/ PushCard

SaveSpec == InitSave /\ [][NextSave]_vars

-----------------------------------------------------------------------------
(* A complete call of recreate_metadata_card on a listing, as the          *)
(* composition of the same steps: what the call raises and the card        *)
(* metadata it pushes.                                                     *)

\* lines 308-329 on the files left
RECURSIVE RunPass1(_, _)
RunPass1(st, files) ==
    IF files = <<>> \/ st.error # "none" THEN st
    ELSE RunPass1(
             IF Derived[Head(files)].is_result THEN st
             ELSE IF ~Derived[Head(files)].iso_ok THEN [st EXCEPT !.error = "ValueError"]
             ELSE [st EXCEPT !.last = Pass1Update(@, Derived[Head(files)])],
             Tail(files))

\* lines 343-441 on the files left
RECURSIVE RunPass2(_, _, _, _, _)
RunPass2(st, files, multi, last_iso, max_iso) ==
    IF files = <<>> \/ st.error # "none" THEN st
    ELSE RunPass2(Pass2Step(st, Derived[Head(files)], multi, last_iso, max_iso),
                  Tail(files), multi, last_iso, max_iso)

\* lines 339-445 once the maxima are known
RunFrom(listing, last) ==
    LET max_iso == IsoFormat(GlobalMax(last))
        st == RunPass2([card_metadata |-> EmptyMap, former_entry_bound |-> FALSE,
                        error |-> "none"],
                       parquet_files(listing), multiple_results(listing),
                       IsoOfAll(last), max_iso)
    IN  IF st.error # "none" THEN [error |-> st.error, card_metadata |-> EmptyMap]
        ELSE IF LastResultsFiles(listing, max_iso) = <<>>
        THEN [error |-> "IndexError", card_metadata |-> EmptyMap]
        ELSE [error |-> "none", card_metadata |-> st.card_metadata]

\* lines 301-493: the exception raised ("none") and the card metadata pushed
Reconcile(listing) ==
    LET p1 == RunPass1([last |-> EmptyMap, error |-> "none"], parquet_files(listing))
    IN  IF p1.error # "none" THEN [error |-> p1.error, card_metadata |-> EmptyMap]
        ELSE IF DOMAIN p1.last = {} THEN [error |-> "IndexError", card_metadata |-> EmptyMap]
        ELSE RunFrom(listing, p1.last)

\* the same of the run the state machine has finished
Outcome ==
    [error |-> error, card_metadata |-> IF pushed THEN card_metadata ELSE EmptyMap]

Finished == pc \in {"done", "raised"}

-----------------------------------------------------------------------------
(* What the properties below read: the runs that wrote the files of the    *)
(* universe, independently of what the method parses out of their names.   *)

\* per file: its kind, the task and the run (1 is the run of TS1, 2 of TS2)
\* that wrote it, and the config, the split and the group config the naming
\* convention gives it
Origin ==
    (J1 :> [kind |-> "json", task |-> "", run |-> 1, config |-> "",
            split |-> "2023_09_03T10_57_04.203304", group |-> ""])
 @@ (J2 :> [kind |-> "json", task |-> "", run |-> 2, config |-> "",
            split |-> "2024_01_15T08_30_00.123456", group |-> ""])
 @@ (R1 :> [kind |-> "results", task |-> "", run |-> 1, config |-> "results",
            split |-> "2023_09_03T10_57_04.203304", group |-> ""])
 @@ (R2 :> [kind |-> "results", task |-> "", run |-> 2, config |-> "results",
            split |-> "2024_01_15T08_30_00.123456", group |-> ""])
 @@ (A1 :> [kind |-> "details", task |-> "lighteval|mmlu:us_history|5", run |-> 1,
            config |-> "lighteval_mmlu_us_history_5",
            split |-> "2023_09_03T10_57_04.203304", group |-> "lighteval_mmlu_5"])
 @@ (A2 :> [kind |-> "details", task |-> "lighteval|mmlu:us_history|5", run |-> 2,
            config |-> "lighteval_mmlu_us_history_5",
            split |-> "2024_01_15T08_30_00.123456", group |-> "lighteval_mmlu_5"])
 @@ (B1 :> [kind |-> "details", task |-> "lighteval|mmlu:world_religions|5", run |-> 1,
            config |-> "lighteval_mmlu_world_religions_5",
            split |-> "2023_09_03T10_57_04.203304", group |-> "lighteval_mmlu_5"])
 @@ (M2 :> [kind |-> "details", task |-> "lighteval|mmlu|5", run |-> 2,
            config |-> "lighteval_mmlu_5",
            split |-> "2024_01_15T08_30_00.123456", group |-> "lighteval_mmlu_5"])
 @@ (P1 :> [kind |-> "details", task |-> "harness|arc:challenge|25", run |-> 1,
            config |-> "harness_arc_challenge_25",
            split |-> "2023_09_03T10_57_04.203304", group |-> ""])
 @@ (X0 :> [kind |-> "unparsable", task |-> "", run |-> 0, config |-> "",
            split |-> "", group |-> ""])

Range(seq) == { seq[i] : i \in 1..Len(seq) }

FilesOfKind(listing, kind) == { f \in Range(listing) : Origin[f].kind = kind }

\* the path a file is listed under in the card metadata
ListedPath(f) == IF Origin[f].kind = "details" THEN "**/" \o Basename(f) ELSE f

\* the paths under the entries of data_files named split, in list order
RECURSIVE PathsOf(_, _)
PathsOf(data_files, split) ==
    IF data_files = <<>> THEN <<>>
    ELSE (IF Head(data_files).split = split THEN Head(data_files).path ELSE <<>>)
         \o PathsOf(Tail(data_files), split)

SplitNames(data_files) == { data_files[i].split : i \in 1..Len(data_files) }

\* the number of entries of data_files named split
CountSplit(data_files, split) ==
    Cardinality({ i \in 1..Len(data_files) : data_files[i].split = split })

\* the listing in another order
Reorder(listing, perm) == [ i \in DOMAIN listing |-> listing[perm[i]] ]
Orders(listing) == { Reorder(listing, perm) : perm \in Permutations(DOMAIN listing) }

\* the listing without the files of a set
Without(listing, files) == SelectSeq(listing, LAMBDA f : f \notin files)

\* the files pass 2 has processed so far
Processed ==
    IF pc = "done" THEN Range(parquet_files(files_in_repo))
    ELSE IF pc = "pass2"
    THEN { parquet_files(files_in_repo)[i] : i \in 1..(idx - 1) }
    ELSE {}

-----------------------------------------------------------------------------
(* C1.  After a reconciliation, in the config of every task the path list  *)
(* of the split "latest" equals the path list of the split named with the  *)
(* date of the task's most recent run.                                     *)
C1_LatestIsNewestSplit ==
    pc = "done" =>
        \A f \in FilesOfKind(files_in_repo, "details") :
            (\A g \in FilesOfKind(files_in_repo, "details") :
                 Origin[g].task = Origin[f].task => Origin[g].run <= Origin[f].run)
            => /\ Origin[f].config \in DOMAIN card_metadata
               /\ PathsOf(card_metadata[Origin[f].config], "latest")
                    = PathsOf(card_metadata[Origin[f].config], Origin[f].split)

(* C2.  Every reordering of the listing gives the same card metadata and   *)
(* the same exception.                                                     *)
C2_OrderIndependent ==
    Finished => \A other \in Orders(files_in_repo) : Reconcile(other) = Outcome

(* C3.  A file that is neither a results file nor a details file under a   *)
(* dated folder is left out without an exception: the outcome is the       *)
(* outcome of the listing without it.                                      *)
C3_UnparsableFileIgnored ==
    Finished =>
        Outcome = Reconcile(Without(files_in_repo, FilesOfKind(files_in_repo, "unparsable")))

(* C4.  A listing without details files, the empty listing first of all,   *)
(* gives an empty configuration and raises nothing.                        *)
C4_NoDetailsGivesEmptyConfig ==
    (Finished /\ FilesOfKind(files_in_repo, "details") = {}
              /\ FilesOfKind(files_in_repo, "unparsable") = {})
        => error = "none" /\ card_metadata = EmptyMap

(* C5.  In every config of the card metadata pushed, no two entries carry  *)
(* the same split name; "latest" is there at most once.                    *)
C5_SplitNamesUnique ==
    pc = "done" =>
        \A c \in DOMAIN card_metadata :
            \A n \in SplitNames(card_metadata[c]) : CountSplit(card_metadata[c], n) = 1

(* C6.  A split is extended, never replaced: at every point of pass 2 and  *)
(* after it, the path of every parquet file processed so far is listed in  *)
(* its config ("results", or the slug of its task) under the split named   *)
(* with its sanitized date.                                                *)
C6_ProcessedPathsKept ==
    \A f \in Processed :
        /\ Origin[f].config \in DOMAIN card_metadata
        /\ ListedPath(f) \in Range(PathsOf(card_metadata[Origin[f].config], Origin[f].split))

\* two runs of one task have both been reconciled
C6_Witness ==
    /\ pc = "done"
    /\ multiple_results(files_in_repo)
    /\ {A1, A2} \subseteq Processed
    /\ Len(card_metadata[Origin[A1].config]) > 2

(* C7.  In single-result mode a second results file met by pass 2 ends the *)
(* call with a ValueError and nothing is pushed.                           *)
C7_SecondResultsFileIsValueError ==
    (/\ pc = "raised"
     /\ max_last_eval_date_results # ""
     /\ idx <= Len(parquet_files(files_in_repo))
     /\ Origin[parquet_files(files_in_repo)[idx]].kind = "results"
     /\ ~multiple_results(files_in_repo))
        => error = "ValueError" /\ ~pushed

\* the group configs of the listing, and those that are no task's own config
Groups(listing) == { Origin[f].group : f \in FilesOfKind(listing, "details") } \ {""}
PureGroup(listing, g) == \A f \in FilesOfKind(listing, "details") : Origin[f].config # g

\* the processed members of group g that were written by the run of split
Members(g, split) ==
    { f \in Processed : Origin[f].group = g /\ Origin[f].split = split }

PathBag(paths) ==
    [ q \in Range(paths) |-> Cardinality({ i \in 1..Len(paths) : paths[i] = q }) ]

\* a config up to the order of its splits and of the paths in them
SplitBags(data_files) ==
    [ n \in SplitNames(data_files) |-> PathBag(PathsOf(data_files, n)) ]

ReferenceOrder(listing) ==
    CHOOSE other \in Orders(listing) : Reconcile(other).error = "none"

C10_ResultsOnlyListing ==
    (Finished /\ R1 \in Range(files_in_repo) /\ Range(files_in_repo) \subseteq {J1, R1})
        => /\ error = "none"
           /\ card_metadata =
                [ c \in {"results"} |->
                    << [split |-> Origin[R1].split, path |-> <<R1>>],
                       [split |-> "latest", path |-> <<R1>>] >> ]

\* the date-time of runs 1 and 2 as datetime.isoformat writes it
RunIso == <<"2023-09-03T10:57:04.203304", "2024-01-15T08:30:00.123456">>

\* the tasks with a details file in the listing, the most recent run of one
\* of them and the most recent run of all
TasksOf(listing) == { Origin[f].task : f \in FilesOfKind(listing, "details") }

LastRunOf(listing, tasks) ==
    CHOOSE r \in 1..2 :
        /\ \E f \in FilesOfKind(listing, "details") :
              Origin[f].task \in tasks /\ Origin[f].run = r
        /\ \A f \in FilesOfKind(listing, "details") :
              Origin[f].task \in tasks => Origin[f].run <= r

\* the registry of the complete listing: per task the date of its last run
CompleteRegistry(listing) ==
    [ t \in TasksOf(listing) |-> RunIso[LastRunOf(listing, {t})] ]

(* C11.  No split entry is written before the maxima are computed; from    *)
(* then on, at every point of pass 2 and after it, the per-task maxima and *)
(* the global maximum are those of the complete listing (so pass 2 never   *)
(* changes them), and a processed details file is under "latest" in its    *)
(* config exactly when it is of the last run of its task in the complete   *)
(* listing.                                                                *)
C11_RegistryCompleteBeforeConfig ==
    /\ max_last_eval_date_results = "" => card_metadata = EmptyMap
    /\ max_last_eval_date_results # "" =>
          /\ last_eval_date_results = CompleteRegistry(files_in_repo)
          /\ max_last_eval_date_results
               = RunIso[LastRunOf(files_in_repo, TasksOf(files_in_repo))]
          /\ \A f \in Processed :
                Origin[f].kind = "details" =>
                    (ListedPath(f) \in Range(PathsOf(card_metadata[Origin[f].config], "latest"))
                       <=> Origin[f].run = LastRunOf(files_in_repo, {Origin[f].task}))

\* pass 2 has decided on an older file while the newer file of the same
\* task, later in the listing, is still to come
C11_Witness ==
    /\ pc = "pass2"
    /\ A1 \in Processed
    /\ A2 \in Range(files_in_repo) \ Processed
    /\ P1 \in Range(files_in_repo)
    /\ "latest" \notin SplitNames(card_metadata[Origin[A1].config])

(* C12.  In the card metadata pushed, no path occurs twice in the path     *)
(* list of a split, whatever the config.                                   *)
C12_NoPathTwice ==
    pc = "done" =>
        \A c \in DOMAIN card_metadata :
            \A i \in 1..Len(card_metadata[c]) :
                Cardinality(Range(card_metadata[c][i].path)) = Len(card_metadata[c][i].path)

\* the split of the most recent run of the members of group g
LastGroupSplit(listing, g) ==
    LET members == { f \in FilesOfKind(listing, "details") : Origin[f].group = g }
        last == CHOOSE f \in members : \A m \in members : Origin[m].run <= Origin[f].run
    IN  Origin[last].split

(* C13.  In every group config of the card metadata pushed, the path list  *)
(* of "latest" equals the path list of the split named with the most       *)
(* recent date over all members of the group.                              *)
C13_GroupLatestIsNewestSplit ==
    pc = "done" =>
        \A g \in Groups(files_in_repo) :
            PathsOf(card_metadata[g], "latest")
                = PathsOf(card_metadata[g], LastGroupSplit(files_in_repo, g))

-----------------------------------------------------------------------------
(* The properties of SaveSpec read the run that wrote a details file: the  *)
(* reading of the clock and the task id save was given.                    *)

Written ==
    { [file |-> DetailsFile(t, DateId(now)), now |-> now, task |-> t] :
        now \in Clock, t \in UNION { Range(tasks) : tasks \in TaskLists } }

WrittenBy(f) == CHOOSE w \in Written : w.file = f

DetailsIn(listing) == { f \in Range(listing) : \E w \in Written : w.file = f }

\* is f of the most recent run of its task in the listing
IsLastRunOfTask(listing, f) ==
    \A g \in DetailsIn(listing) :
        WrittenBy(g).task = WrittenBy(f).task
            => ~DateLess(WrittenBy(f).now, WrittenBy(g).now)

(* C14.  For every folder name written by save: putting the two colons     *)
(* back gives a string fromisoformat accepts, the date-time parsed is the  *)
(* reading of the clock, and formatting and sanitizing it gives the token  *)
(* that sanitizing the folder name gives.  Once the maxima are computed,   *)
(* the token of a details file equals the token of its task's maximum      *)
(* exactly when the file is of the most recent run of the task.            *)
C14_TimestampRoundTrip ==
    \A f \in DetailsIn(files_in_repo) :
        /\ Derived[f].iso_ok
        /\ Derived[f].eval_dt = WrittenBy(f).now
        /\ SanitizeDate(IsoFormat(Derived[f].eval_dt)) = Derived[f].sanitized_eval_date
        /\ max_last_eval_date_results # "" =>
              (Derived[f].sanitized_eval_date
                    = SanitizeDate(last_eval_date_results[WrittenBy(f).task])
                 <=> IsLastRunOfTask(files_in_repo, f))

\* two runs of one task, one at a whole second and one a microsecond
\* later, have been reconciled: only the later one is under "latest"
C14_Witness ==
    /\ pc = "done"
    /\ \E f, g \in DetailsIn(files_in_repo) :
          /\ WrittenBy(f).task = WrittenBy(g).task
          /\ WrittenBy(f).now[7] = 0
          /\ WrittenBy(g).now = [WrittenBy(f).now EXCEPT ![7] = 1]
          /\ PathsOf(card_metadata[Derived[g].sanitized_task], "latest")
               = <<Derived[g].repo_file_name>>

(* C15.  For every details file pass 1 accepted, pass 2 extracts the task  *)
(* id pass 1 extracted, which is the task id save was given, and finds the *)
(* maximum of that task: no KeyError, whatever the year of the run.        *)
C15_SameTaskInBothPasses ==
    /\ error # "KeyError"
    /\ pc \in {"pass2", "done"} =>
          \A f \in DetailsIn(files_in_repo) :
              /\ Derived[f].task1 = WrittenBy(f).task
              /\ Derived[f].task2 = Derived[f].task1
              /\ Derived[f].task2 \in DOMAIN last_eval_date_results

====
